---- MODULE Spec2Model ----
(***************************************************************************)
(* Model of amethyst_rendy/src/pass/debug_lines.rs: the DrawDebugLines     *)
(* render group (build, prepare, draw_inline, dispose) and the helper      *)
(* build_lines_pipeline.                                                   *)
(***************************************************************************)
EXTENDS Integers, Sequences, FiniteSets, TLC

\* ------------------------------------------------------------------ bounds
NumSlots    == 2   \* frame slots in flight (index of prepare/draw_inline)
MaxEntities == 2   \* entities that may carry a DebugLinesComponent
MaxCompLen  == 1   \* lines held by one component
MaxPool     == 1   \* lines queued in the DebugLines resource
MaxLineVal  == 2   \* distinct DebugLine values

\* ------------------------------------------------------- program constants
DefaultLineWidth == 1   \* DebugLinesParams::default().line_width
QuadVertices     == 4   \* encoder.draw(0..4, ..)
EnvSet           == 0   \* self.env.bind(index, layout, 0, ..)
ArgsSet          == 1   \* self.args.bind(index, layout, 1, ..)
VertexBinding    == 0   \* self.vertex.bind(index, 0, ..)

Slots      == 0 .. (NumSlots - 1)
Entities   == 1 .. MaxEntities
LineVals   == 1 .. MaxLineVal
\* the projview matrix CameraGatherer::gather returns: an opaque value
ProjView   == "projview"
\* line widths of a DebugLinesParams resource; powers of two, so that the
\* f32 divisions of prepare are exact and integer division models them
LineWidths == {1, 2}
\* frame-buffer sizes handed to build (u32, converted with `as f32`)
FrameSizes == {<<800, 600>>, <<1024, 768>>}

\* value of a component slot of the storage that holds no component
NoComp == [alive |-> FALSE, lines |-> <<>>]
\* what game logic may put on entity e: no component, or one whose lines all
\* carry the value that marks the entity, so that the source of a line shows
ValOf(e) == ((e - 1) % MaxLineVal) + 1
CompValuesOf(e) ==
    {NoComp} \cup
    {[alive |-> TRUE, lines |-> [k \in 1 .. n |-> ValOf(e)]] : n \in 0 .. MaxCompLen}

\* a storage without components
NoComps == [e \in Entities |-> NoComp]

\* content of a uniform / vertex slot that was never written
Unwritten == [written |-> FALSE, data |-> <<>>]
Written(d) == [written |-> TRUE, data |-> d]

NoCall == [op |-> "none", index |-> 0, result |-> "none"]
NoParams == [exists |-> FALSE, line_width |-> 0]
NoPre  == [valid |-> FALSE, comps |-> <<>>, res |-> [exists |-> FALSE, q |-> <<>>],
           owed |-> <<>>, prev_drained |-> <<>>, slot_count |-> -1,
           slot_steady |-> FALSE, slot_same |-> FALSE, old_len |-> 0]
NoHist == [count |-> -1, steady |-> FALSE]

VARIABLES
    pc,           \* position of the build / lifetime of the pass instance
    ret,          \* value returned by build
    pipes,        \* result of PipelinesBuilder::build inside build_lines_pipeline
    gpu_log,      \* create/destroy calls made on the device, in order
    framebuffer,  \* <<framebuffer_width, framebuffer_height>> of the instance
    lines,        \* self.lines
    change,       \* self.change (util::ChangeDetection)
    env,          \* self.env: per-slot camera uniform
    args,         \* self.args: per-slot line-style uniform
    vertex,       \* self.vertex: per-slot vertex buffer
    lines_comps,  \* storage of DebugLinesComponent
    lines_res,    \* the optional DebugLines resource
    line_params,  \* the optional DebugLinesParams resource
    cmds,         \* commands recorded by the latest draw_inline of each slot
    call,         \* the hook just called on the instance and its result;
                  \* reset when the world changes afterwards
    pre,          \* what the prepare just called saw on entry; reset by any
                  \* later event
    prepared,     \* per slot, the lines aggregated by its latest prepare
    hist,         \* per slot, the line count of its latest prepare, and whether
                  \* every prepare since then computed that same count
    owed,         \* lines submitted to the pool since the latest prepare
    drained,      \* lines the latest prepare took out of the pool
    skipped       \* whether some "rebuild" result of prepare was not followed
                  \* at once by the draw_inline of its slot

vars == <<pc, ret, pipes, gpu_log, framebuffer, lines, change, env, args,
          vertex, lines_comps, lines_res, line_params, cmds, call,
          pre, prepared, hist, owed, drained, skipped>>

instance_vars == <<framebuffer, lines, change, env, args, vertex>>
world_vars    == <<lines_comps, lines_res, line_params, owed>>
hook_vars     == <<cmds, call, pre, prepared, hist, drained, skipped>>
build_vars    == <<ret, pipes, gpu_log>>

\* --------------------------------------------------------------- helpers
RECURSIVE Flatten(_)
Flatten(ss) == IF ss = <<>> THEN <<>> ELSE Head(ss) \o Flatten(Tail(ss))

\* (&lines_comps).join(): the components alive, in entity order
Join(comps) ==
    LET F[e \in 0 .. MaxEntities] ==
            IF e = 0 THEN <<>>
            ELSE IF comps[e].alive THEN Append(F[e - 1], comps[e].lines)
                 ELSE F[e - 1]
    IN F[MaxEntities]

Ok       == [tag |-> "Ok", e |-> "none"]
Err(e)   == [tag |-> "Err", e |-> e]
NoResult == [tag |-> "none", e |-> "none"]

ParamOptions == {NoParams} \cup {[exists |-> TRUE, line_width |-> w] : w \in LineWidths}

\* errors the pipeline builder may report
PipelineErrors == {"out_of_memory", "creation_failed"}

\* --------------------------------------------------------------- Init
\* build is entered; the world holds whatever resources it holds
InitAny ==
    /\ pc = "new_env"
    /\ ret = NoResult
    /\ pipes = NoResult
    /\ gpu_log = <<>>
    /\ framebuffer \in FrameSizes
    /\ lines = <<>>
    /\ change = {}
    /\ env = [i \in Slots |-> Unwritten]
    /\ args = [i \in Slots |-> Unwritten]
    /\ vertex = [i \in Slots |-> Unwritten]
    /\ lines_comps = NoComps
    /\ lines_res \in {[exists |-> FALSE, q |-> <<>>], [exists |-> TRUE, q |-> <<>>]}
    /\ cmds = [i \in Slots |-> <<>>]
    /\ call = NoCall
    /\ pre = NoPre
    /\ prepared = [i \in Slots |-> Unwritten]
    /\ hist = [i \in Slots |-> NoHist]
    /\ line_params \in ParamOptions
    /\ owed = <<>>
    /\ drained = <<>>
    /\ skipped = FALSE

\* ------------------------------------------------------------- build
\* let env = DynamicUniform::new(...)?;
NewEnv ==
    /\ pc = "new_env"
    /\ \E ok \in BOOLEAN :
          IF ok THEN pc' = "new_args" /\ ret' = ret
          ELSE pc' = "failed" /\ ret' = Err("env")
    /\ UNCHANGED <<pipes, gpu_log, instance_vars, world_vars, hook_vars>>

\* let args = DynamicUniform::new(...)?; let vertex = DynamicVertex::new();
NewArgs ==
    /\ pc = "new_args"
    /\ \E ok \in BOOLEAN :
          IF ok THEN pc' = "create_layout" /\ ret' = ret
          ELSE pc' = "failed" /\ ret' = Err("args")
    /\ UNCHANGED <<pipes, gpu_log, instance_vars, world_vars, hook_vars>>

\* the layouts build hands to build_lines_pipeline, by descriptor set number
\* from 0: vec![env.raw_layout(), args.raw_layout()]
SetLayouts == <<"env", "args">>

\* create_pipeline_layout(layouts, None)?
CreatePipelineLayout ==
    /\ pc = "create_layout"
    /\ \E ok \in BOOLEAN :
          IF ok
          THEN /\ pc' = "module_vertex"
               /\ gpu_log' = Append(gpu_log, <<"create", "pipeline_layout">>)
               /\ ret' = ret
          ELSE /\ pc' = "failed"
               /\ gpu_log' = gpu_log
               /\ ret' = Err("layout")
    /\ UNCHANGED <<pipes, instance_vars, world_vars, hook_vars>>

\* DEBUG_LINES_VERTEX.module(factory).unwrap()
ModuleVertex ==
    /\ pc = "module_vertex"
    /\ \E ok \in BOOLEAN :
          IF ok
          THEN /\ pc' = "module_fragment"
               /\ gpu_log' = Append(gpu_log, <<"create", "shader_vertex">>)
          ELSE /\ pc' = "panicked"
               /\ gpu_log' = gpu_log
    /\ UNCHANGED <<ret, pipes, instance_vars, world_vars, hook_vars>>

\* DEBUG_LINES_FRAGMENT.module(factory).unwrap()
ModuleFragment ==
    /\ pc = "module_fragment"
    /\ \E ok \in BOOLEAN :
          IF ok
          THEN /\ pc' = "build_pipes"
               /\ gpu_log' = Append(gpu_log, <<"create", "shader_fragment">>)
          ELSE /\ pc' = "panicked"
               /\ gpu_log' = gpu_log
    /\ UNCHANGED <<ret, pipes, instance_vars, world_vars, hook_vars>>

\* let pipes = PipelinesBuilder::new().with_pipeline(..).build(factory, None);
BuildPipes ==
    /\ pc = "build_pipes"
    /\ \/ /\ pipes' = Ok
          /\ gpu_log' = Append(gpu_log, <<"create", "pipeline">>)
       \/ \E e \in PipelineErrors :
             /\ pipes' = Err(e)
             /\ gpu_log' = Append(gpu_log, <<"fail", "pipeline">>)
    /\ pc' = "destroy_modules"
    /\ UNCHANGED <<ret, instance_vars, world_vars, hook_vars>>

\* the two destroy_shader_module calls after the pipeline build
DestroyModulesEventsVertexOnly ==
    << <<"destroy", "shader_vertex">> >>

DestroyModulesEvents ==
    << <<"destroy", "shader_vertex">>, <<"destroy", "shader_fragment">> >>

DestroyModules ==
    /\ pc = "destroy_modules"
    /\ gpu_log' = gpu_log \o DestroyModulesEvents
    /\ pc' = "match_pipes"
    /\ UNCHANGED <<ret, pipes, instance_vars, world_vars, hook_vars>>

\* the Err arm of `match pipes`: what is released, and what is returned
MatchErrEventsNone == <<>>

MatchErrEvents == << <<"destroy", "pipeline_layout">> >>
MatchErrValue(p) == Err(p.e)

\* match pipes { Err(e) => { destroy_pipeline_layout; Err(e) }, Ok(..) => Ok(..) }
\* followed, on Ok, by the construction of the instance in build
MatchPipes ==
    /\ pc = "match_pipes"
    /\ IF pipes.tag = "Err"
       THEN /\ gpu_log' = gpu_log \o MatchErrEvents
            /\ ret' = MatchErrValue(pipes)
            /\ pc' = "failed"
       ELSE /\ gpu_log' = gpu_log
            /\ ret' = ret
            /\ pc' = "make_instance"
    /\ UNCHANGED <<pipes, instance_vars, world_vars, hook_vars>>

\* Ok(Box::new(DrawDebugLines { .., lines: Vec::new(), change: Default::default() }))
InitialLinesStale == <<1>>

InitialLines  == <<>>
InitialChange == {}

MakeInstance ==
    /\ pc = "make_instance"
    /\ lines' = InitialLines
    /\ change' = InitialChange
    /\ ret' = Ok
    /\ pc' = "alive"
    /\ UNCHANGED <<pipes, gpu_log, framebuffer, env, args, vertex, world_vars, hook_vars>>

\* ------------------------------------------------------------- prepare
\* DebugLines::drain(): hands out every queued line and leaves the queue empty
Drained(q)    == q
AfterDrain(q) == <<>>

\* self.lines.clear(); extend_from_slice for every joined component;
\* then extend(lines_res.drain()) if the resource exists
AggregateKeepOld(old, comps, res) ==
    old \o Flatten(Join(comps)) \o (IF res.exists THEN Drained(res.q) ELSE <<>>)

AggregateNeedsPool(old, comps, res) ==
    IF res.exists THEN Flatten(Join(comps)) \o Drained(res.q) ELSE <<>>

Aggregate(old, comps, res) ==
    Flatten(Join(comps)) \o (IF res.exists THEN Drained(res.q) ELSE <<>>)

ResAfterPrepareKeep(res) == res

ResAfterPrepare(res) ==
    IF res.exists THEN [exists |-> TRUE, q |-> AfterDrain(res.q)] ELSE res

\* line_params.map(|p| p.line_width).unwrap_or(DebugLinesParams::default().line_width)
LineWidthDefaultOnly(params) == DefaultLineWidth

LineWidth(params) ==
    IF params.exists THEN params.line_width ELSE DefaultLineWidth

\* [framebuffer_width / (line_width * 2.0), framebuffer_height / (line_width * 2.0)]
ThicknessNotHalved(fb, lw) == << fb[1] \div lw, fb[2] \div lw >>

Thickness(fb, lw) == << fb[1] \div (lw * 2), fb[2] \div (lw * 2) >>

\* DynamicUniform::write(factory, index, value)
UniformWrite(buf, index, value) == [buf EXCEPT ![index] = Written(value)]

\* DynamicVertex::write(factory, index, max_num_items, Some(items))
VertexWrite(buf, index, n, items) ==
    [buf EXCEPT ![index] = Written(SubSeq(items, 1, n))]

\* max_num_items of the vertex write: self.lines.len() as u64
VertexCountOneLess(ls) == IF ls = <<>> THEN 0 ELSE Len(ls) - 1

VertexCount(ls) == Len(ls)

\* let changed = old_len != self.lines.len();
ChangedWhenGrown(old_len, new_len) == new_len > old_len

ChangedNever(old_len, new_len) == FALSE

Changed(old_len, new_len) == old_len # new_len

\* util::ChangeDetection: the slots recorded since the line count last changed
CanReuse(ch, index, changed) == (~changed) /\ index \in ch
ChangeAfter(ch, index, changed) == IF changed THEN {index} ELSE ch \cup {index}
PrepareResult(ch, index, changed) ==
    IF CanReuse(ch, index, changed) THEN "reuse" ELSE "rebuild"

\* the hook just called was a prepare that asked for the commands of its slot
\* to be recorded again, and nothing has happened since
RebuildPending == call.op = "prepare" /\ call.result = "rebuild"

Prepare(index) ==
    /\ pc = "alive"
    /\ LET old_len  == Len(lines)
           new      == Aggregate(lines, lines_comps, lines_res)
           changed  == Changed(old_len, Len(new))
       IN /\ lines' = new
          /\ lines_res' = ResAfterPrepare(lines_res)
          /\ env' = UniformWrite(env, index, ProjView)
          /\ args' = UniformWrite(args, index,
                                  Thickness(framebuffer, LineWidth(line_params)))
          /\ vertex' = VertexWrite(vertex, index, VertexCount(new), new)
          /\ change' = ChangeAfter(change, index, changed)
          /\ call' = [op |-> "prepare", index |-> index,
                      result |-> PrepareResult(change, index, changed)]
          /\ pre' = [valid |-> TRUE, comps |-> lines_comps, res |-> lines_res,
                     owed |-> owed, prev_drained |-> drained,
                     slot_count |-> hist[index].count,
                     slot_steady |-> hist[index].steady,
                     slot_same |-> (prepared[index] = Written(new)),
                     old_len |-> old_len]
          /\ prepared' = [prepared EXCEPT ![index] = Written(new)]
          /\ hist' = [j \in Slots |->
                         IF j = index THEN [count |-> Len(new), steady |-> TRUE]
                         ELSE [hist[j] EXCEPT
                                  !.steady = @ /\ hist[j].count = Len(new)]]
    /\ owed' = <<>>
    /\ drained' = owed
    /\ skipped' = (skipped \/ RebuildPending)
    /\ UNCHANGED <<pc, build_vars, framebuffer, lines_comps, line_params, cmds>>

\* ------------------------------------------------------------- draw_inline
\* encoder.draw(0..4, 0..self.lines.len() as u32)
DrawInstances(ls) == Len(ls)

DrawCommandsSkipEmpty(index, ls) ==
    << <<"bind_graphics_pipeline">>,
       <<"bind_env", index, EnvSet>>,
       <<"bind_args", index, ArgsSet>>,
       <<"bind_vertex", index, VertexBinding>> >> \o
    (IF ls = <<>> THEN <<>> ELSE << <<"draw", QuadVertices, DrawInstances(ls)>> >>)

DrawCommands(index, ls) ==
    << <<"bind_graphics_pipeline">>,
       <<"bind_env", index, EnvSet>>,
       <<"bind_args", index, ArgsSet>>,
       <<"bind_vertex", index, VertexBinding>>,
       <<"draw", QuadVertices, DrawInstances(ls)>> >>

LinesClearedByDraw(ls) == <<>>

\* draw_inline reads self.lines only for its length
LinesAfterDraw(ls) == ls

Draw(index) ==
    /\ pc = "alive"
    /\ cmds' = [cmds EXCEPT ![index] = DrawCommands(index, lines)]
    /\ lines' = LinesAfterDraw(lines)
    /\ call' = [op |-> "draw", index |-> index, result |-> "none"]
    /\ pre' = NoPre
    /\ skipped' = (skipped \/ (RebuildPending /\ call.index # index))
    /\ UNCHANGED <<pc, build_vars, framebuffer, change, env, args, vertex,
                   world_vars, prepared, hist, drained>>

\* ------------------------------------------------------------- dispose
\* destroy_graphics_pipeline(self.pipeline); destroy_pipeline_layout(self.pipeline_layout)
DisposeEventsLayoutFirst ==
    << <<"destroy", "pipeline_layout">>, <<"destroy", "pipeline">> >>

DisposeEvents ==
    << <<"destroy", "pipeline">>, <<"destroy", "pipeline_layout">> >>

\* dispose(self: Box<Self>, ..) consumes the instance
AfterDisposeStillAlive == "alive"

AfterDispose == "disposed"

Dispose ==
    /\ pc = "alive"
    /\ gpu_log' = gpu_log \o DisposeEvents
    /\ pc' = AfterDispose
    /\ call' = [op |-> "dispose", index |-> 0, result |-> "none"]
    /\ pre' = NoPre
    /\ UNCHANGED <<ret, pipes, instance_vars, world_vars, cmds, prepared, hist,
                   drained, skipped>>

\* ------------------------------------------------- producers and game logic
\* game logic inserts, removes or rewrites the DebugLinesComponent of an entity
SetComponent(e, v) ==
    /\ lines_comps[e] # v
    /\ lines_comps' = [lines_comps EXCEPT ![e] = v]
    /\ pre' = NoPre
    /\ call' = NoCall
    /\ skipped' = (skipped \/ RebuildPending)
    /\ UNCHANGED <<pc, build_vars, instance_vars, lines_res, line_params,
                   owed, cmds, prepared, hist, drained>>

\* a producer queues one line in the DebugLines resource
Submit(v) ==
    /\ lines_res.exists
    /\ Len(lines_res.q) < MaxPool
    /\ lines_res' = [lines_res EXCEPT !.q = Append(@, v)]
    /\ owed' = Append(owed, v)
    /\ pre' = NoPre
    /\ call' = NoCall
    /\ skipped' = (skipped \/ RebuildPending)
    /\ UNCHANGED <<pc, build_vars, instance_vars, lines_comps, line_params,
                   cmds, prepared, hist, drained>>

\* game logic inserts, removes or rewrites the DebugLinesParams resource
SetParams(p) ==
    /\ line_params # p
    /\ line_params' = p
    /\ pre' = NoPre
    /\ call' = NoCall
    /\ skipped' = (skipped \/ RebuildPending)
    /\ UNCHANGED <<pc, build_vars, instance_vars, lines_comps, lines_res,
                   owed, cmds, prepared, hist, drained>>

Build ==
    \/ NewEnv
    \/ NewArgs
    \/ CreatePipelineLayout
    \/ ModuleVertex
    \/ ModuleFragment
    \/ BuildPipes
    \/ DestroyModules
    \/ MatchPipes
    \/ MakeInstance

\* an 800x600 target, a world without a DebugLinesParams resource
Init ==
    /\ InitAny
    /\ framebuffer = <<800, 600>>
    /\ line_params = NoParams

\* a producer that queues at most one line per frame
SubmitOne(v) ==
    /\ lines_res.q = <<>>
    /\ Submit(v)

\* The pass over its whole life, driven over every frame slot, in a world
\* without DebugLinesParams and without components, whose producers feed the
\* pool with at most one line per frame.
Next ==
    \/ Build
    \/ \E index \in Slots : Prepare(index)
    \/ \E index \in Slots : Draw(index)
    \/ Dispose
    \/ \E v \in LineVals : SubmitOne(v)

Spec == Init /\ [][Next]_vars

\* The aggregation of prepare in a world where game logic rewrites the
\* components between frames: a graph with one frame in flight (every prepare
\* is for slot 0), no DebugLinesParams resource, nothing drawn.
InitWorld ==
    /\ InitAny
    /\ framebuffer = <<800, 600>>
    /\ line_params = NoParams

NextWorld ==
    \/ Build
    \/ Prepare(0)
    \/ \E e \in Entities : \E v \in CompValuesOf(e) : SetComponent(e, v)
    \/ \E v \in LineVals : Submit(v)

SpecWorld == InitWorld /\ [][NextWorld]_vars

\* The line style of prepare: any target size, a DebugLinesParams resource
\* that game logic inserts, rewrites and removes between frames, a graph
\* with one frame in flight, no lines.
InitStyle == InitAny

NextStyle ==
    \/ Build
    \/ Prepare(0)
    \/ \E p \in ParamOptions : SetParams(p)

SpecStyle == InitStyle /\ [][NextStyle]_vars

\* the scheduler records the commands of a slot only when the prepare it just
\* called for that slot asked for it
RecordDraw(index) ==
    /\ RebuildPending
    /\ call.index = index
    /\ Draw(index)

\* The pass under a graph scheduler that calls draw_inline only in answer to a
\* "rebuild" result, and is free not to answer one; world as in Spec.
NextSched ==
    \/ Build
    \/ \E index \in Slots : Prepare(index)
    \/ \E index \in Slots : RecordDraw(index)
    \/ \E v \in LineVals : SubmitOne(v)

SpecSched == Init /\ [][NextSched]_vars

\* =================================================================== claims
\* concat(L1..Ln): the lines of the components alive, in entity order
RECURSIVE ConcatUpTo(_, _)
ConcatUpTo(comps, n) ==
    IF n = 0 THEN <<>>
    ELSE ConcatUpTo(comps, n - 1) \o
         (IF comps[n].alive THEN comps[n].lines ELSE <<>>)
ConcatOf(comps) == ConcatUpTo(comps, MaxEntities)

\* how often, and where first, an event occurs in the device log
Count(ev, log) == Cardinality({k \in 1 .. Len(log) : log[k] = ev})
IndexOf(ev, log) ==
    IF \E k \in 1 .. Len(log) : log[k] = ev
    THEN CHOOSE k \in 1 .. Len(log) : log[k] = ev /\ \A j \in 1 .. (k - 1) : log[j] # ev
    ELSE 0
Elems(sq) == {sq[k] : k \in 1 .. Len(sq)}
PoolBefore == IF pre.res.exists THEN pre.res.q ELSE <<>>
Before(a, b, log) == IndexOf(a, log) > 0 /\ IndexOf(a, log) < IndexOf(b, log)
CreateEv(o)  == <<"create", o>>
DestroyEv(o) == <<"destroy", o>>
GpuObjects == {"pipeline_layout", "shader_vertex", "shader_fragment", "pipeline"}
\* the count the change detection is steady on, seen from the slot just prepared
SteadyOnCount == pre.slot_steady /\ pre.slot_count = Len(lines)

\* C1: right after prepare the aggregated buffer is concat(L1..Ln) followed by
\* what the pool held before, nothing of the previous buffer remains, the pool
\* is empty, and a prepare that follows another with no submission in between
\* aggregates the component lines only.
C1_PrepareAggregatesAndDrains ==
    pre.valid =>
        /\ lines = ConcatOf(pre.comps) \o PoolBefore
        /\ lines_res.exists => lines_res.q = <<>>
        /\ pre.owed = <<>> => lines = ConcatOf(pre.comps)

C1_Witness ==
    /\ pre.valid
    /\ pre.slot_count > 0
    /\ PoolBefore # <<>>
    /\ \A e \in {1, 2} : pre.comps[e].alive /\ pre.comps[e].lines # <<>>
    /\ pre.comps[1].lines # pre.comps[2].lines

\* C2 (as claimed): prepare(i) returns "rebuild required" iff its line count
\* differs from the count of the preceding prepare of the same slot i.
C2_RebuildIffSlotCountDiffers ==
    (pre.valid /\ pre.slot_count # -1) =>
        (call.result = "rebuild" <=> Len(lines) # pre.slot_count)

\* C2 (amended): prepare(i) returns "reuse compatible" iff slot i was prepared
\* before and every prepare since, for any slot, this one included, computed
\* the count of that prepare(i); otherwise "rebuild required". Contents are
\* not compared.
C2_ReuseIffCountSteadySinceSlot ==
    pre.valid =>
        /\ call.result \in {"reuse", "rebuild"}
        /\ call.result = "reuse" <=> SteadyOnCount

C2_Witness ==
    /\ pre.valid
    /\ call.result = "reuse"
    /\ lines # <<>>
    /\ ~pre.slot_same

\* C3: after draw(i) that follows a prepare(i), the instance count of the draw
\* call is the length aggregated by the latest prepare(i), and the vertex data
\* bound for slot i is the sequence that prepare aggregated.
C3_DrawUsesSlotPrepare ==
    (call.op = "draw" /\ prepared[call.index].written) =>
        /\ cmds[call.index][5] =
              <<"draw", QuadVertices, Len(prepared[call.index].data)>>
        /\ vertex[call.index].data = prepared[call.index].data

\* C4: when the pipeline build fails after the layout was created, build has
\* released the layout exactly once when it returns, it returns the error of
\* the pipeline build, and no instance exists afterwards: nothing is released
\* or called later.
C4_LayoutReleasedOnPipelineFailure ==
    /\ [](pipes.tag = "Err" /\ pc \notin {"destroy_modules", "match_pipes"} =>
            /\ pc = "failed"
            /\ ret = Err(pipes.e)
            /\ Count(CreateEv("pipeline_layout"), gpu_log) = 1
            /\ Count(DestroyEv("pipeline_layout"), gpu_log) = 1
            /\ Before(CreateEv("pipeline_layout"), DestroyEv("pipeline_layout"),
                      gpu_log))
    /\ [][pc = "failed" =>
             /\ pc' = "failed"
             /\ call' = NoCall
             /\ UNCHANGED <<gpu_log, ret, instance_vars, cmds>>]_vars

C4_Witness ==
    /\ pc = "failed"
    /\ ret = Err("creation_failed")
    /\ Count(DestroyEv("pipeline_layout"), gpu_log) = 1

\* C5: dispose releases the pipeline, then the layout, each exactly once, and
\* nothing can be applied to the instance after it.
C5_DisposeOrderOnce ==
    /\ [](pc = "disposed" =>
            /\ Count(DestroyEv("pipeline"), gpu_log) = 1
            /\ Count(DestroyEv("pipeline_layout"), gpu_log) = 1
            /\ Before(DestroyEv("pipeline"), DestroyEv("pipeline_layout"), gpu_log))
    /\ [][pc = "disposed" =>
             /\ pc' = "disposed"
             /\ call' \in {call, NoCall}
             /\ UNCHANGED <<gpu_log, instance_vars, cmds>>]_vars

C5_Witness ==
    /\ pc = "disposed"
    /\ SubSeq(gpu_log, Len(gpu_log) - 1, Len(gpu_log)) =
          << DestroyEv("pipeline"), DestroyEv("pipeline_layout") >>
    /\ \E i \in Slots : cmds[i] # <<>>

\* C6: a build that ends without an instance returns an error value, and every
\* GPU object it created has been released.
C6_FailurePropagatedWithoutLeak ==
    pc \in {"failed", "panicked"} =>
        /\ ret.tag = "Err"
        /\ \A o \in GpuObjects :
              Count(CreateEv(o), gpu_log) = Count(DestroyEv(o), gpu_log)

\* C7: each shader module is released at most once and only after the pipeline
\* build attempt; once the attempt is over and build has moved on, both have
\* been released exactly once, whether the attempt succeeded or failed.
C7_ShaderModulesReleasedAfterAttempt ==
    \A m \in {"shader_vertex", "shader_fragment"} :
        /\ Count(DestroyEv(m), gpu_log) <= 1
        /\ Count(DestroyEv(m), gpu_log) = 1 =>
              \/ Before(CreateEv("pipeline"), DestroyEv(m), gpu_log)
              \/ Before(<<"fail", "pipeline">>, DestroyEv(m), gpu_log)
        /\ (pipes.tag # "none" /\ pc # "destroy_modules") =>
              Count(DestroyEv(m), gpu_log) = 1

C7_Witness ==
    /\ pc = "failed"
    /\ pipes = Err("out_of_memory")
    /\ Count(DestroyEv("shader_vertex"), gpu_log) = 1
    /\ Count(DestroyEv("shader_fragment"), gpu_log) = 1

\* C8: the buffer of a prepare holds the component lines followed by exactly
\* the lines submitted to the pool since the prepare before it, so a line
\* submitted once is in one buffer only while a component line is in every
\* buffer; prepare leaves the components as they are.
C8_PoolLinesOnceComponentLinesAlways ==
    /\ [](pre.valid => lines = ConcatOf(lines_comps) \o pre.owed)
    /\ [][pre'.valid => lines_comps' = lines_comps]_vars

C8_Witness ==
    /\ pre.valid
    /\ pre.owed = <<>>
    /\ \E v \in Elems(pre.prev_drained) : v \notin Elems(lines)
    /\ \E e \in Entities : lines_comps[e].alive /\ lines_comps[e].lines # <<>>

\* C9: a draw_inline step changes nothing but the recorded commands.
C9_DrawOnlyRecords ==
    [][(call'.op = "draw" /\ (call' # call \/ cmds' # cmds)) =>
          UNCHANGED <<lines, change, lines_res, lines_comps, env, args, vertex>>]_vars

C9_Witness ==
    /\ call.op = "draw"
    /\ lines # <<>>
    /\ lines_res.q # <<>>
    /\ cmds[call.index] # <<>>
    /\ vertex[call.index].written

\* C10: without a DebugLines resource prepare completes, aggregates the
\* component lines only, and uploads and reports as it always does.
C10_NoPoolIsNotAnError ==
    (pre.valid /\ ~pre.res.exists) =>
        /\ pc = "alive"
        /\ ~lines_res.exists
        /\ lines = ConcatOf(pre.comps)
        /\ vertex[call.index] = Written(lines)
        /\ env[call.index] = Written(ProjView)
        /\ args[call.index] =
              Written(<< framebuffer[1] \div (2 * DefaultLineWidth),
                         framebuffer[2] \div (2 * DefaultLineWidth) >>)
        /\ call.result = IF SteadyOnCount THEN "reuse" ELSE "rebuild"

C10_Witness ==
    /\ pre.valid
    /\ ~pre.res.exists
    /\ Len(lines) = 2
    /\ call.result = "rebuild"

\* C11: without a DebugLinesParams resource prepare uses the line width 1.0,
\* so the pair it uploads is (framebuffer_width / 2, framebuffer_height / 2);
\* with the resource, the line width of the resource takes its place.
C11_DefaultLineWidth ==
    pre.valid =>
        /\ args[call.index].written
        /\ ~line_params.exists =>
              args[call.index].data = <<framebuffer[1] \div 2, framebuffer[2] \div 2>>
        /\ line_params.exists =>
              args[call.index].data =
                  <<framebuffer[1] \div (2 * line_params.line_width),
                    framebuffer[2] \div (2 * line_params.line_width)>>

C11_Witness ==
    /\ pre.valid
    /\ ~line_params.exists
    /\ framebuffer = <<1024, 768>>
    /\ args[call.index].data = <<512, 384>>

\* the line width the prepare just called had to use
WidthInForce == IF line_params.exists THEN line_params.line_width ELSE 1

\* C12: the pair prepare uploads is (framebuffer_width / (line_width * 2),
\* framebuffer_height / (line_width * 2)) for the size build was given; for
\* line width 2 and an 800x600 target it is (200, 150).
C12_ThicknessPair ==
    pre.valid =>
        /\ Len(args[call.index].data) = 2
        /\ args[call.index].data[1] * (WidthInForce * 2) = framebuffer[1]
        /\ args[call.index].data[2] * (WidthInForce * 2) = framebuffer[2]
        /\ (WidthInForce = 2 /\ framebuffer = <<800, 600>>) =>
               args[call.index].data = <<200, 150>>

C12_Witness ==
    /\ pre.valid
    /\ line_params.exists
    /\ line_params.line_width = 2
    /\ framebuffer = <<800, 600>>
    /\ args[call.index] = Written(<<200, 150>>)

\* no prepare has been called on the instance
NeverPrepared == \A i \in Slots : ~prepared[i].written
\* the prepare just called was the first one of the instance
FirstPrepare ==
    /\ pre.valid
    /\ pre.slot_count = -1
    /\ \A j \in Slots \ {call.index} : ~prepared[j].written

\* C13: the instance a successful build returns has an empty line buffer and
\* fresh change tracking: until the first prepare every draw recorded has 0
\* instances, and the first prepare compares its count against 0 and finds no
\* slot to reuse.
C13_FreshInstance ==
    /\ (pc = "alive" /\ NeverPrepared) =>
          /\ ret = Ok
          /\ lines = <<>>
          /\ change = {}
          /\ \A i \in Slots :
                cmds[i] # <<>> => cmds[i][5] = <<"draw", QuadVertices, 0>>
    /\ FirstPrepare =>
          /\ pre.old_len = 0
          /\ call.result = "rebuild"

C13_Witness ==
    /\ FirstPrepare
    /\ lines # <<>>
    /\ \E i \in Slots : cmds[i] # <<>> /\ cmds[i][5] = <<"draw", QuadVertices, 0>>

\* C14: a prepare writes, of each of the three wrappers, the slot of its
\* frame index and no other: the camera and the line style go into that
\* slot, the vertex slot holds exactly the aggregated buffer, and every other
\* slot keeps its contents.
C14_PrepareWritesOnlyItsSlot ==
    [][pre'.valid =>
          /\ env'[call'.index] = Written(ProjView)
          /\ args'[call'.index].written
          /\ vertex'[call'.index] = Written(lines')
          /\ Len(vertex'[call'.index].data) = Len(lines')
          /\ \A j \in Slots \ {call'.index} :
                /\ env'[j] = env[j]
                /\ args'[j] = args[j]
                /\ vertex'[j] = vertex[j]]_vars

\* slot 0 prepared with no line while slot 1 keeps the line written before
C14_Witness ==
    /\ pre.valid
    /\ call.index = 0
    /\ vertex[0] = Written(<<>>)
    /\ vertex[1].written
    /\ vertex[1].data # <<>>

\* C15: what a draw_inline records for its slot is, in this order, the
\* pipeline bind, the camera uniform at descriptor set 0, the line style at
\* descriptor set 1 (the places their layouts have in the pipeline layout),
\* the vertex buffer at binding 0, and one draw call of 4 vertices per
\* instance, which is there with 0 instances when there is no line.
C15_DrawRecordsInOrder ==
    /\ \A i \in Slots :
          cmds[i] # <<>> =>
              /\ Len(cmds[i]) = 5
              /\ cmds[i][1] = <<"bind_graphics_pipeline">>
              /\ cmds[i][2] = <<"bind_env", i, 0>>
              /\ cmds[i][3] = <<"bind_args", i, 1>>
              /\ cmds[i][4] = <<"bind_vertex", i, 0>>
              /\ cmds[i][5][1] = "draw"
              /\ cmds[i][5][2] = 4
              /\ SetLayouts[cmds[i][2][3] + 1] = "env"
              /\ SetLayouts[cmds[i][3][3] + 1] = "args"
    /\ call.op = "draw" =>
          /\ cmds[call.index] # <<>>
          /\ cmds[call.index][5][3] = Len(lines)

\* a draw after a prepare that aggregated no line
C15_Witness ==
    /\ call.op = "draw"
    /\ prepared[call.index] = Written(<<>>)
    /\ lines = <<>>
    /\ cmds[call.index][5] = <<"draw", 4, 0>>
    /\ \E j \in Slots : cmds[j] # <<>> /\ cmds[j][5][3] > 0

\* C16 as stated: whenever a prepare returns "reuse", the instance count of
\* the commands recorded for its slot by the last draw_inline that answered a
\* "rebuild" result is the current line count.
C16_ReuseNeverStale ==
    (pre.valid /\ call.result = "reuse" /\ cmds[call.index] # <<>>) =>
        cmds[call.index][5][3] = Len(lines)

\* C16, amended: as long as every "rebuild" result has been answered at once
\* by the draw_inline of its slot, a prepare that returns "reuse" finds
\* commands recorded for its slot, and their instance count is the current
\* line count.
C16_ReuseMatchesWhenRebuildsAnswered ==
    (pre.valid /\ call.result = "reuse" /\ ~skipped) =>
        /\ cmds[call.index] # <<>>
        /\ cmds[call.index][5][3] = Len(lines)

\* slot 1 reused with lines in the buffer, after both slots were recorded
C16_Witness ==
    /\ pre.valid
    /\ call.result = "reuse"
    /\ call.index = 1
    /\ ~skipped
    /\ lines # <<>>
    /\ cmds[0] # <<>>
    /\ cmds[1][5][3] = Len(lines)

\* C17: the instance count a draw_inline issues for a slot is at most the
\* number of lines the latest prepare of that slot wrote into its vertex
\* buffer.
C17_DrawWithinUploadedLines ==
    (call.op = "draw" /\ vertex[call.index].written) =>
        cmds[call.index][5][3] <= Len(vertex[call.index].data)

\* the device object was created and has not been destroyed
Live(o, log) == Count(CreateEv(o), log) = 1 /\ Count(DestroyEv(o), log) = 0
\* the part of the device log before its k-th call
LogBefore(k) == SubSeq(gpu_log, 1, k - 1)
PipelineInputs == {"pipeline_layout", "shader_vertex", "shader_fragment"}

\* C18: whatever build, the hooks and dispose do, on the failure path of the
\* pipeline build too, every device object is created at most once and
\* destroyed at most once and after its creation, the pipeline build runs
\* while the layout and both shader modules are live, draw_inline binds a live
\* pipeline with a live layout, and the layout is destroyed only when no
\* pipeline was built from it or that pipeline has been destroyed before.
C18_NoDoubleReleaseNoUseAfterRelease ==
    /\ \A o \in GpuObjects :
          /\ Count(CreateEv(o), gpu_log) <= 1
          /\ Count(DestroyEv(o), gpu_log) <= 1
          /\ Count(DestroyEv(o), gpu_log) = 1 =>
                Before(CreateEv(o), DestroyEv(o), gpu_log)
    /\ \A k \in 1 .. Len(gpu_log) :
          gpu_log[k] \in {<<"create", "pipeline">>, <<"fail", "pipeline">>} =>
              \A o \in PipelineInputs : Live(o, LogBefore(k))
    /\ call.op = "draw" =>
          Live("pipeline", gpu_log) /\ Live("pipeline_layout", gpu_log)
    /\ Count(DestroyEv("pipeline_layout"), gpu_log) = 1 =>
          \/ Count(CreateEv("pipeline"), gpu_log) = 0
          \/ Before(DestroyEv("pipeline"), DestroyEv("pipeline_layout"), gpu_log)

\* an instance disposed after it has drawn
C18_Witness ==
    /\ pc = "disposed"
    /\ \E i \in Slots : cmds[i] # <<>>
    /\ \A o \in GpuObjects : Count(DestroyEv(o), gpu_log) = 1

====
